---- MODULE Spec2Model ----
(***************************************************************************)
(* A model of maka:rest: route registration (Route.addToApi), the routing  *)
(* middleware (JsonRoutes.matchRoute / processRoutes), the per-request     *)
(* dispatcher registered by Route.addToApi (rate-limit gate, _callEndpoint,*)
(* _authenticate, _roleAccepted, sendResult) and the default login         *)
(* endpoint (MakaRest._initAuth, Auth.loginWithPassword).                  *)
(*                                                                         *)
(* Strings (paths, urls) are sequences of tokens: the token "/" is the     *)
(* separator, "?" starts the query string, every other token is a run of   *)
(* characters holding neither.  '/api/v1/articles/42?x=1' is               *)
(* <<"/","api","/","v1","/","articles","/","42","?","x=1">>.              *)
(***************************************************************************)
EXTENDS Integers, Sequences, FiniteSets, TLC

VARIABLES
    paths,      \* api._config.paths: the raw paths of the routes added so far
    routes,     \* JsonRoutes.routes: the registered {method, path, handler}
    installs,   \* how many times processRoutes installed the middleware
    nCalls,     \* addRoute calls made after construction
    lastCall,   \* the arguments of the last addRoute call
    threw,      \* whether the last addRoute call threw
    cfgIn,      \* _configureEndpoints: its input (route options, endpoint)
    cfgOut,     \* _configureEndpoints: the endpoint it leaves behind
    matchIn,    \* matchRoute: a route added and a request made for it
    matchOut,   \* matchRoute: what it finds, with and without trailing '/'
    gateIn,     \* _callEndpoint: an endpoint as written and a credential
    gateOut,    \* _callEndpoint: the endpoint as configured, the request after
    delivered,  \* the connect stack: a request and what the stack did with it
    userCall,   \* a generated Meteor.users endpoint: its call and what it did
    colCall,    \* addCollection: its arguments and the routes it adds
    users,      \* Meteor.users: per account, its hashed login tokens
    issued,     \* how many login tokens were generated so far (each is new)
    consumed,   \* RateLimiterMemory: points consumed per key in this window
    rateLimitOptions, \* whether api._config.rateLimitOptions is configured
    authUser,   \* api._config.auth.user: the default one or the application's
    rateFaults, \* how the rate-limit step can fail other than by exhaustion:
                \* not at all with req.ip as the key and the memory store
    req         \* the requests being handled, one record per request slot

vars == <<paths, routes, installs, nCalls, lastCall, threw, cfgIn, cfgOut,
          matchIn, matchOut, gateIn, gateOut, delivered, userCall, colCall,
          users, issued, consumed, rateLimitOptions, authUser, rateFaults, req>>

regVars == <<paths, routes, installs, nCalls, lastCall, threw>>
cfgVars == <<cfgIn, cfgOut, matchIn, matchOut, gateIn, gateOut, delivered,
            userCall, colCall>>
runVars == <<users, issued, consumed, rateLimitOptions, authUser, rateFaults, req>>

(***************************************************************************)
(* Bounds                                                                  *)
(***************************************************************************)
MaxCalls == 3          \* addRoute calls explored after construction
MaxConsumed == 4       \* cap on the consume calls per key in one window
MaxIssued == 3         \* cap on the login tokens ever generated
Points == 2            \* rateLimitOptions.points of the configured policy

(***************************************************************************)
(* Strings as token sequences                                              *)
(***************************************************************************)
Slash == "/"
QMark == "?"

\* `...`.replace(/\/+/g, '/'): every run of slashes becomes one slash.
RECURSIVE Collapse(_)
Collapse(s) ==
    IF Len(s) <= 1 THEN s
    ELSE IF s[1] = Slash /\ s[2] = Slash THEN Collapse(Tail(s))
    ELSE <<s[1]>> \o Collapse(Tail(s))

\* String.prototype.split('/'): the pieces between the slashes, empty ones kept.
RECURSIVE SplitFrom(_, _, _)
SplitFrom(s, i, cur) ==
    IF i > Len(s) THEN <<cur>>
    ELSE IF s[i] = Slash THEN <<cur>> \o SplitFrom(s, i + 1, <<>>)
    ELSE SplitFrom(s, i + 1, Append(cur, s[i]))

Split(s) == SplitFrom(s, 1, <<>>)

\* The named-parameter tokens, ':name', and the name each carries.
ParamTokens == {":id", ":slug"}
ParamName(tok) == IF tok = ":id" THEN "id" ELSE "slug"

\* seg.startsWith(':')
StartsWithColon(seg) == Len(seg) > 0 /\ seg[1] \in ParamTokens
\* seg.substring(1) of a ':name' segment
Substring1(seg) == ParamName(seg[1])

(***************************************************************************)
(* Configuration (MakaRest constructor, normalizeApiPath)                  *)
(***************************************************************************)
\* apiPath 'api/' with version 'v1': apiRoot = 'api/', apiPath = 'api/v1/'.
ApiRoot == <<"api", "/">>
ApiPath == <<"api", "/", "v1", "/">>

Methods == {"get", "post", "put", "patch", "delete", "options"}
availableMethods == Methods

AuthOpt == {"undefined", "true", "false"}

\* An endpoint as the caller writes it.  A bare function is the record with
\* nothing but its action set (_resolveEndpoints wraps it in {action}).
RawEndpoint(action, auth, roles, scopes) ==
    [action |-> action, authRequired |-> auth, roleRequired |-> roles,
     scopeRequired |-> scopes]

Fn(action) == RawEndpoint(action, "undefined", {}, {})

RouteOptions(auth, roles, onRoot) ==
    [authRequired |-> auth, roleRequired |-> roles, onRoot |-> onRoot]

NoOptions == RouteOptions("undefined", {}, FALSE)

\* configureCors installs a default OPTIONS endpoint when CORS is enabled.
defaultOptionsEndpoint == Fn("defaultOptions")

(***************************************************************************)
(* Route._configureEndpoints                                               *)
(***************************************************************************)
\* The merged roleRequired: endpoint roles, then the route's; an empty list
\* becomes undefined, which the empty set stands for.
MergedRoles(endpoint, options) ==
    endpoint.roleRequired \cup options.roleRequired

ResolveAuthBuggy(endpoint, options) ==
    IF endpoint.authRequired # "undefined" THEN endpoint.authRequired
    ELSE IF options.authRequired # "undefined" THEN options.authRequired
    ELSE IF MergedRoles(endpoint, options) # {} THEN "true" ELSE "false"

\* endpoint.authRequired !== undefined ? endpoint.authRequired
\*   : (this.options.authRequired || !!endpoint.roleRequired)
ResolveAuth(endpoint, options) ==
    IF endpoint.authRequired # "undefined" THEN endpoint.authRequired
    ELSE IF options.authRequired = "true" THEN "true"
    ELSE IF MergedRoles(endpoint, options) # {} THEN "true" ELSE "false"

ConfigureEndpoint(method, endpoint, options) ==
    IF method = "options" THEN endpoint
    ELSE [endpoint EXCEPT !.roleRequired = MergedRoles(endpoint, options),
                          !.authRequired = ResolveAuth(endpoint, options)]

(***************************************************************************)
(* Route.addToApi and JsonRoutes.add                                       *)
(***************************************************************************)
Contains(seq, x) == \E i \in 1..Len(seq) : seq[i] = x

Star == <<"*">>
Root == <<"/">>

\* The guard of addToApi that throws 'Cannot add a route at an existing path'.
ExistingPathGuard(ps, path, onRoot) ==
    Contains(ps, path) /\ (onRoot /\ path # Star /\ path # Root)

\* onRoot ? `${apiRoot}/${path}` : `${partialApiPath}/${path}`, slashes collapsed
FullPath(path, onRoot) ==
    Collapse((IF onRoot THEN ApiRoot ELSE ApiPath) \o <<Slash>> \o path)

\* JsonRoutes.add: a leading slash is added when missing.
JsonRoutesAdd(rs, method, path, handler) ==
    Append(rs, [method |-> method,
                path |-> IF path[1] # Slash THEN <<Slash>> \o path ELSE path,
                handler |-> handler])

\* The endpoints of a route once addToApi has put the default OPTIONS
\* endpoint in and resolved the configuration.
RouteEndpoints(endpoints, options) ==
    LET withOptions == [m \in DOMAIN endpoints \cup {"options"} |->
                           IF m = "options" THEN defaultOptionsEndpoint
                           ELSE endpoints[m]]
    IN [m \in DOMAIN withOptions |-> ConfigureEndpoint(m, withOptions[m], options)]

\* Object.keys order of the endpoints: the caller's keys, 'options' last.
MethodOrder == <<"get", "post", "put", "patch", "delete", "options">>

RECURSIVE AddMethods(_, _, _, _, _)
AddMethods(rs, i, eps, fullPath, routePath) ==
    IF i > Len(MethodOrder) THEN rs
    ELSE LET m == MethodOrder[i] IN
         IF m \in DOMAIN eps /\ m \in availableMethods
         THEN AddMethods(JsonRoutesAdd(rs, m, fullPath,
                             [endpoint |-> eps[m], route |-> routePath]),
                         i + 1, eps, fullPath, routePath)
         ELSE AddMethods(rs, i + 1, eps, fullPath, routePath)

\* The api after addRoute(path, options, endpoints): [paths, routes, installs,
\* threw].
AddToApi(api, path, options, endpoints) ==
    IF ExistingPathGuard(api.paths, path, options.onRoot)
    THEN [api EXCEPT !.threw = TRUE]
    ELSE [paths |-> Append(api.paths, path),
          routes |-> AddMethods(api.routes, 1, RouteEndpoints(endpoints, options),
                                FullPath(path, options.onRoot), path),
          installs |-> api.installs + 1,
          threw |-> FALSE]

RECURSIVE AddAll(_, _)
AddAll(api, calls) ==
    IF calls = <<>> THEN api
    ELSE AddAll(AddToApi(api, calls[1].path, calls[1].options, calls[1].endpoints),
                Tail(calls))

Call(path, options, endpoints) ==
    [path |-> path, options |-> options, endpoints |-> endpoints]

OnRoot == RouteOptions("undefined", {}, TRUE)

\* MakaRest._initAuth: the login, logout and logoutAll routes.
InitAuthCalls ==
    << Call(<<"login">>, RouteOptions("false", {}, FALSE),
            [post |-> Fn("login")]),
       Call(<<"logout">>, RouteOptions("true", {}, FALSE),
            [post |-> Fn("logout")]),
       Call(<<"logoutAll">>, RouteOptions("true", {}, FALSE),
            [post |-> Fn("logoutAll")]) >>

\* MakaRest.initializeWildcardRoutes
WildcardCalls ==
    << Call(Root, OnRoot, [get |-> Fn("apiRoot")]),
       Call(Root, NoOptions, [get |-> Fn("apiVersionRoot")]),
       Call(Star, NoOptions, [get |-> Fn("notFound")]),
       Call(Star, OnRoot, [get |-> Fn("notFound")]) >>

EmptyApi == [paths |-> <<>>, routes |-> <<>>, installs |-> 0, threw |-> FALSE]

\* The api the constructor leaves behind with useDefaultAuth: true.
Constructed == AddAll(EmptyApi, InitAuthCalls \o WildcardCalls)

(***************************************************************************)
(* JsonRoutes.matchRoute                                                   *)
(***************************************************************************)
\* (path.endsWith('/') && path !== '/') ? path.slice(0, -1) : path
normalizePath(path) ==
    IF Len(path) > 0 /\ path[Len(path)] = Slash /\ path # <<Slash>>
    THEN SubSeq(path, 1, Len(path) - 1)
    ELSE path

\* 'get'.toUpperCase()
ToUpperCase(m) ==
    CASE m = "get" -> "GET" [] m = "post" -> "POST" [] m = "put" -> "PUT"
      [] m = "patch" -> "PATCH" [] m = "delete" -> "DELETE"
      [] m = "options" -> "OPTIONS" [] OTHER -> m

EmptyParams == [k \in {} |-> <<>>]

\* The loop over the segments: [match, params] from segment i on.
RECURSIVE SegmentLoop(_, _, _, _)
SegmentLoop(routeSegments, reqSegments, i, params) ==
    IF i > Len(routeSegments) THEN [match |-> TRUE, params |-> params]
    ELSE IF StartsWithColon(routeSegments[i])
    THEN SegmentLoop(routeSegments, reqSegments, i + 1,
             (Substring1(routeSegments[i]) :> reqSegments[i]) @@ params)
    ELSE IF routeSegments[i] # reqSegments[i]
    THEN [match |-> FALSE, params |-> params]
    ELSE SegmentLoop(routeSegments, reqSegments, i + 1, params)

\* The request url a route is matched against: req.url as it is, query
\* string included.
MatchedUrl(url) == url

\* One call of the find callback: whether the path matches, and its params.
PathMatch(route, url) ==
    LET routeSegments == Split(normalizePath(route.path))
        reqSegments == Split(normalizePath(MatchedUrl(url)))
    IN IF Len(routeSegments) # Len(reqSegments)
       THEN [match |-> FALSE, params |-> EmptyParams]
       ELSE SegmentLoop(routeSegments, reqSegments, 1, EmptyParams)

\* this.routes.find(...): the first route whose method and path match, 0 when
\* none does, with req.params as the callbacks left it:
\* req.params = { ...req.params, ...params } for every route visited whose
\* path matched.
RECURSIVE FindRoute(_, _, _, _, _)
FindRoute(rs, i, method, url, params) ==
    IF i > Len(rs) THEN [index |-> 0, params |-> params]
    ELSE LET pm == PathMatch(rs[i], url)
             isMethodMatch == ToUpperCase(rs[i].method) = method
             params2 == IF pm.match THEN pm.params @@ params ELSE params
         IN IF isMethodMatch /\ pm.match
            THEN [index |-> i, params |-> params2]
            ELSE FindRoute(rs, i + 1, method, url, params2)

matchRoute(rs, method, url) == FindRoute(rs, 1, method, url, EmptyParams)

(***************************************************************************)
(* Accounts and tokens                                                     *)
(***************************************************************************)
Accounts == {"alice", "bob"}
PasswordOf(u) == IF u = "alice" THEN "pw-alice" ELSE "pw-bob"
EmailOf(u) == IF u = "alice" THEN "alice@x" ELSE "bob@x"
RolesOf(u) == IF u = "alice" THEN {"admin"} ELSE {"user"}
ScopesOf(u) == IF u = "alice" THEN {"eu"} ELSE {}

\* A raw login token is a number, the n-th token issued being n; 0 stands for
\* no X-Auth-Token header.
NoToken == 0
\* A token nobody is ever issued.
BogusToken == MaxIssued + 1
\* Accounts._hashLoginToken
_hashLoginToken(t) == <<"sha256", t>>

\* Meteor.users.findOneAsync({[auth.token path]: hashed})
NoUser == "none"
FindUserByToken(us, hashed) ==
    IF \E u \in Accounts : hashed \in us[u]
    THEN CHOOSE u \in Accounts : hashed \in us[u]
    ELSE NoUser

\* Roles.userIsInRole(user, roles): the user holds one of the roles.
userIsInRole(u, roles) == RolesOf(u) \cap roles # {}

(***************************************************************************)
(* Responses (Codes, JsonRoutes.sendResult)                                *)
(***************************************************************************)
Body(text, authToken, when, error) ==
    [text |-> text, authToken |-> authToken, when |-> when, error |-> error]

Text(s) == Body(s, NoToken, FALSE, "")
NoBody == Text("")

\* getReasonPhrase of http-status-codes, for the codes in use.
getReasonPhrase(statusCode) ==
    CASE statusCode = 200 -> "OK"
      [] statusCode = 204 -> "No Content"
      [] statusCode = 400 -> "Bad Request"
      [] statusCode = 401 -> "Unauthorized"
      [] statusCode = 403 -> "Forbidden"
      [] statusCode = 404 -> "Not Found"
      [] statusCode = 429 -> "Too Many Requests"
      [] OTHER -> "Internal Server Error"

\* Header names are case-insensitive: res.setHeader keeps them by their
\* lower-case form.
toLowerCase(name) ==
    CASE name \in {"Content-Type", "Content-type"} -> "content-type"
      [] name = "Cache-Control" -> "cache-control"
      [] name = "Pragma" -> "pragma"
      [] name = "Access-Control-Allow-Origin" -> "access-control-allow-origin"
      [] name = "Access-Control-Allow-Headers" -> "access-control-allow-headers"
      [] name = "X-Total-Count" -> "x-total-count"
      [] OTHER -> name

NoHeaders == [name \in {} |-> ""]

\* res.setHeader(name, value)
setHeader(sent, name, value) ==
    [k \in DOMAIN sent \cup {toLowerCase(name)} |->
        IF k = toLowerCase(name) THEN value ELSE sent[k]]

\* JsonRoutes.setHeaders: res.setHeader for every entry.
setHeaders(sent, headers) ==
    [k \in DOMAIN sent \cup {toLowerCase(n) : n \in DOMAIN headers} |->
        IF \E n \in DOMAIN headers : toLowerCase(n) = k
        THEN headers[CHOOSE n \in DOMAIN headers : toLowerCase(n) = k]
        ELSE sent[k]]

\* JsonRoutes.responseHeaders, set on the response of every matched request.
responseHeaders ==
    ("Cache-Control" :> "no-store") @@ ("Pragma" :> "no-cache")

\* api._config.defaultHeaders after configureCors, with default auth.
defaultHeaders ==
    ("Content-Type" :> "application/json")
    @@ ("Access-Control-Allow-Origin" :> "*")
    @@ ("Access-Control-Allow-Headers" :>
            "Origin, X-Requested-With, Content-Type, Accept, Authorization, X-Auth-Token")

\* Codes.generateResponse, called without extra and headers.
StatusResponse(statusCode, data) ==
    [statusCode |-> statusCode, status |-> getReasonPhrase(statusCode),
     data |-> data, headers |-> NoHeaders]

unauthorized401 == StatusResponse(401, Text("Unauthorized"))
forbidden403 == StatusResponse(403, Text("Forbidden"))
notFound404 == StatusResponse(404, Text("Not Found"))
\* Codes.noContent204 is called for a falsy result; the Codes at hand define
\* no such method, so the call either answers this or throws.
noContent204 == StatusResponse(204, Text("No Content"))

\* What the dispatcher's catch block sends for a failure with this detail.
ServerError(detail) == StatusResponse(500, Text("Server Error"))

\* The rate gate's answer when consume rejects.
TooManyRequests == StatusResponse(429, Text("Too many requests"))

LoginBody(username, email, password) ==
    [username |-> username, email |-> email, password |-> password]
NoLoginBody == LoginBody("", "", "")

\* What a connection remembers of the exchange before the current one, in
\* the specifications that follow a caller from one request to the next: the
\* token with which logoutAll has just been answered 200.
NoMemory == [on |-> FALSE, token |-> NoToken]

IdleReq ==
    [pc |-> "idle", method |-> "", url |-> <<>>, token |-> NoToken, ip |-> "",
     prev |-> NoMemory, authError |-> "", headers |-> NoHeaders,
     rateFault |-> "",
     route |-> 0, urlParams |-> EmptyParams,
     lookedUp |-> FALSE, user |-> NoUser, handlerCalled |-> FALSE,
     outcome |-> "", thrown |-> "", bodyParams |-> NoLoginBody,
     statusCode |-> 0, data |-> NoBody, ended |-> 0]

\* writeJsonToBody: res.write(JSON.stringify(json)), the body being the
\* value passed and nothing around it.
writeJsonToBody(json) == json

\* writeJsonToBody's header: set whenever there is a body to write.
JsonContentType(sent) == setHeader(sent, "Content-type", "application/json")

\* JsonRoutes.sendResult({code, headers, data}): the headers given, the
\* status code, the body, res.end().  The callers pass the code, the headers
\* and the data of a response, not its status.
sendResult(q, response) ==
    [q EXCEPT !.pc = "done", !.statusCode = response.statusCode,
              !.headers = JsonContentType(setHeaders(q.headers, response.headers)),
              !.data = writeJsonToBody(response.data), !.ended = q.ended + 1]

(***************************************************************************)
(* The routes served: the constructor's, then the application's            *)
(***************************************************************************)
AppCalls ==
    << Call(<<"articles">>, RouteOptions("undefined", {"admin"}, FALSE),
            [get |-> Fn("user")]),
       Call(<<"articles", "/", ":id">>, NoOptions,
            [get |-> Fn("user"),
             post |-> RawEndpoint("user", "true", {}, {}),
             put |-> RawEndpoint("user", "undefined", {"admin"}, {}),
             patch |-> RawEndpoint("user", "undefined", {"admin"}, {"eu", "us"}),
             delete |-> RawEndpoint("user", "false", {"admin"}, {}),
             options |-> Fn("user")]) >>

Served == AddAll(Constructed, AppCalls)

V1(rest) == <<"/", "api", "/", "v1", "/">> \o rest

Request(method, url) == [method |-> method, url |-> url]

Article42 == V1(<<"articles", "/", "42">>)

\* The requests made, all under the mount '/api/'.
Requests ==
    { Request("POST", V1(<<"login">>)), Request("GET", V1(<<"login">>)),
      Request("POST", V1(<<"logout">>)), Request("POST", V1(<<"logoutAll">>)),
      Request("GET", V1(<<"articles">>)), Request("GET", V1(<<"articles", "/">>)),
      Request("GET", V1(<<"articles", "?", "x=1">>)),
      Request("GET", Article42), Request("POST", Article42),
      Request("PUT", Article42), Request("PATCH", Article42),
      Request("DELETE", Article42), Request("OPTIONS", Article42),
      Request("OPTIONS", V1(<<"articles">>)),
      Request("GET", V1(<<"articles", "/", "42", "?", "x=1">>)),
      Request("GET", V1(<<"articles", "/", "42", "/">>)),
      Request("GET", V1(<<"missing">>)), Request("DELETE", V1(<<"missing">>)),
      Request("POST", V1(<<"articles">>)),
      Request("GET", <<"/", "api", "/">>), Request("GET", V1(<<"*">>)) }

Ips == {"ip1", "ip2"}
Reqs == {1}

(***************************************************************************)
(* The request handler Route.addToApi registers                            *)
(***************************************************************************)
\* JsonRoutes.routes while requests are served: nothing is added any more.
ServedRoutes == Served.routes

\* matchRoute on each request made.
Matches == [x \in Requests |-> matchRoute(ServedRoutes, x.method, x.url)]

Endpoint(q) == ServedRoutes[q.route].handler.endpoint

\* The middleware's answer when matchRoute finds nothing.
NoMatchNext(q) == [q EXCEPT !.pc = "done"]
NoMatch(q) == sendResult(q, notFound404)

\* processRoutes' middleware for a request under the mount: match the route,
\* answer 404 when none matches, else run the route's handler up to its
\* first await.
Arrive(r, x, token) ==
    /\ req[r].pc = "idle"
    /\ routes = ServedRoutes
    /\ LET m == Matches[x]
           q == [IdleReq EXCEPT !.method = x.method, !.url = x.url,
                                !.token = token, !.prev = req[r].prev]
       IN req' = [req EXCEPT ![r] =
            IF m.index = 0
            THEN NoMatch(q)
            ELSE [q EXCEPT !.route = m.index, !.urlParams = m.params,
                           !.headers = setHeaders(q.headers, responseHeaders),
                           !.pc = IF rateLimitOptions THEN "gate" ELSE "call"]]
    /\ UNCHANGED <<users, issued, consumed, rateLimitOptions, authUser, rateFaults>>

\* The response has been sent: the connection takes the next request.
Memory(q) ==
    [q.prev EXCEPT !.token =
        IF q.prev.on /\ q.outcome = "logoutAll" /\ q.statusCode = 200
        THEN q.token ELSE NoToken]

Close(r) ==
    /\ req[r].pc = "done"
    /\ req' = [req EXCEPT ![r] = [IdleReq EXCEPT !.prev = Memory(req[r])]]
    /\ UNCHANGED <<users, issued, consumed, rateLimitOptions, authUser, rateFaults>>

\* RateLimiterMemory.consume(key): one more point consumed; rejected when the
\* key has consumed more than its points in this window.
ConsumeRejects(count) == count + 1 > Points

\* What the handler does once consume has settled.
AfterConsumeOpen(q, rejected) == [q EXCEPT !.pc = "call"]
AfterConsume(q, rejected) ==
    IF rejected THEN sendResult(q, TooManyRequests) ELSE [q EXCEPT !.pc = "call"]

\* const key = keyGenerator ? keyGenerator(req) : req.ip
RateKeyShared(ip) == "ip1"
RateKey(ip) == ip

\* The failures of the rate-limit step that are not an exhausted budget: a
\* keyGenerator of the application that throws, a Redis store that cannot be
\* reached.
RateFaults == {"keyGenerator threw", "store unreachable"}

\* The rate gate: the caller's address is read here, and nowhere else.  The
\* try block holds the key function and consume; whatever either throws or
\* rejects with lands in the one catch block.
RateGate(r, ip) ==
    /\ req[r].pc = "gate"
    /\ \E fault \in rateFaults \cup {""} :
         LET key == RateKey(ip)
             q == [req[r] EXCEPT !.ip = ip, !.rateFault = fault]
         IN IF fault = ""
            THEN /\ consumed[key] < MaxConsumed
                 /\ consumed' = [consumed EXCEPT ![key] = @ + 1]
                 /\ req' = [req EXCEPT ![r] =
                        AfterConsume(q, ConsumeRejects(consumed[key]))]
            ELSE /\ consumed' = consumed
                 /\ req' = [req EXCEPT ![r] = AfterConsume(q, TRUE)]
    /\ UNCHANGED <<users, issued, rateLimitOptions, authUser, rateFaults>>

\* The window of a key ends: its record expires.
Expire(key) ==
    /\ consumed[key] > 0
    /\ consumed' = [consumed EXCEPT ![key] = 0]
    /\ UNCHANGED <<users, issued, rateLimitOptions, authUser, rateFaults, req>>

\* The error payloads an application's auth.user returns ("": none).
ExtractorErrors == {"", "token expired"}

\* api._config.auth.user: the hashed X-Auth-Token header, when there is one
\* (hasToken is FALSE for token: undefined); an application's own function
\* may add an error field.
AuthUser(q) ==
    [hasToken |-> q.token # NoToken, token |-> _hashLoginToken(q.token),
     error |-> q.authError]

\* Route._authenticate: [success, user]
AuthenticateLax(us, q) ==
    LET auth == AuthUser(q) IN
    IF ~auth.hasToken THEN [success |-> TRUE, user |-> NoUser]
    ELSE LET user == FindUserByToken(us, auth.token) IN
         IF user = NoUser THEN [success |-> FALSE, user |-> NoUser]
         ELSE [success |-> TRUE, user |-> user]

_authenticate(us, q) ==
    LET auth == AuthUser(q) IN
    IF ~auth.hasToken THEN [success |-> FALSE, user |-> NoUser]
    ELSE LET user == FindUserByToken(us, auth.token) IN
         IF user = NoUser THEN [success |-> FALSE, user |-> NoUser]
         ELSE [success |-> TRUE, user |-> user]

\* Route._authAccepted
_authAccepted(us, q, endpoint) ==
    IF endpoint.authRequired = "true" THEN _authenticate(us, q)
    ELSE [success |-> TRUE, user |-> NoUser]

\* Route._roleAccepted
RoleAcceptedAlways(user, endpoint) == TRUE

_roleAccepted(user, endpoint) ==
    IF endpoint.roleRequired = {} \/ user = NoUser THEN TRUE
    ELSE LET hasRole == userIsInRole(user, endpoint.roleRequired) IN
         IF endpoint.scopeRequired # {}
         THEN hasRole /\ (\E scope \in endpoint.scopeRequired : scope \in ScopesOf(user))
         ELSE hasRole

\* Route._callEndpoint up to the call of endpoint.action: the request once
\* authentication and the role check have decided.
_callEndpoint(us, called, endpoint) ==
    LET auth == _authAccepted(us, called, endpoint)
        q == [called EXCEPT !.lookedUp = (endpoint.authRequired = "true"),
                            !.user = auth.user]
    IN IF auth.success
       THEN IF _roleAccepted(auth.user, endpoint)
            THEN [q EXCEPT !.pc = "action", !.handlerCalled = TRUE]
            ELSE sendResult(q, forbidden403)
       ELSE sendResult(q, unauthorized401)

\* The identity kept where every request being handled reads it.
AssignContextShared(rq, r, q) ==
    [s \in DOMAIN rq |-> IF s = r THEN q ELSE [rq[s] EXCEPT !.user = q.user]]

\* endpointContext.user = user: endpointContext is an object the handler
\* builds for the request at hand, and nothing else is assigned.
AssignContext(rq, r, q) == [rq EXCEPT ![r] = q]

CallEndpoint(r) ==
    /\ req[r].pc = "call"
    /\ \E error \in ExtractorErrors :
         LET endpoint == Endpoint(req[r])
             called == [req[r] EXCEPT !.authError = error]
         IN /\ (authUser = "default" \/ endpoint.authRequired # "true") => error = ""
            /\ req' = AssignContext(req, r, _callEndpoint(users, called, endpoint))
    /\ UNCHANGED <<users, issued, consumed, rateLimitOptions, authUser, rateFaults>>

\* The catch block around _callEndpoint.
CatchLogOnly(q, detail) == [q EXCEPT !.pc = "done", !.thrown = detail]
Catch(q, detail) == sendResult([q EXCEPT !.thrown = detail], ServerError(detail))

\* An application handler: what it does is up to the application.
Outcomes == {"ok", "nothing", "invalid", "throws"}

\* The headers the application's handlers return with their data.
HandlerHeaders ==
    ("Content-Type" :> "text/plain") @@ ("X-Total-Count" :> "1")

UserAction(r) ==
    /\ req[r].pc = "action"
    /\ Endpoint(req[r]).action = "user"
    /\ \E outcome \in Outcomes, defined \in BOOLEAN :
         LET q == [req[r] EXCEPT !.outcome = outcome] IN
         /\ outcome # "nothing" => defined
         /\ req' = [req EXCEPT ![r] =
              CASE outcome = "ok" ->
                     sendResult(q, [StatusResponse(200, Text("ok"))
                                       EXCEPT !.headers = HandlerHeaders])
                [] outcome = "nothing" ->
                     IF defined THEN sendResult(q, noContent204)
                     ELSE Catch(q, "Codes.noContent204 is not a function")
                [] outcome = "invalid" ->
                     Catch(q, "Endpoint response must contain a statusCode and data")
                [] OTHER -> Catch(q, "boom")]
    /\ UNCHANGED <<users, issued, consumed, rateLimitOptions, authUser, rateFaults>>

\* JsonRoutes.sendResult on a response the handler has written to, its
\* headers being out.  writeJsonToBody either returns at res.headersSent and
\* res.end() is called, or has no such test: then res.setHeader throws
\* ERR_HTTP_HEADERS_SENT, in the try block and again in the catch block, and
\* res.end() is not reached.
sendResultHeadersSent(q, guarded) ==
    IF guarded THEN [q EXCEPT !.pc = "done", !.ended = @ + 1]
    ELSE [q EXCEPT !.pc = "done", !.thrown = "ERR_HTTP_HEADERS_SENT"]

\* An application handler that answers through this.response: it writes the
\* body, calls this.done(), which does nothing, with or without
\* this.response.end(), and returns nothing.  The dispatcher takes the falsy
\* result to Codes.noContent204 and to sendResult, in the try block or in
\* the catch block.
ManualAction(r) ==
    /\ req[r].pc = "action"
    /\ Endpoint(req[r]).action = "user"
    /\ \E ends \in BOOLEAN, guarded \in BOOLEAN :
         LET q == [req[r] EXCEPT !.outcome = "manual", !.statusCode = 200,
                                 !.data = Text("manual"),
                                 !.ended = IF ends THEN 1 ELSE 0]
         IN req' = [req EXCEPT ![r] = sendResultHeadersSent(q, guarded)]
    /\ UNCHANGED <<users, issued, consumed, rateLimitOptions, authUser, rateFaults>>

\* The endpoints the constructor adds for '/' and '*', and the default
\* OPTIONS endpoint, whose this.response is never set: it throws.
BuiltinAction(r) ==
    /\ req[r].pc = "action"
    /\ Endpoint(req[r]).action \in {"apiRoot", "apiVersionRoot", "notFound", "defaultOptions"}
    /\ LET a == Endpoint(req[r]).action
           q == [req[r] EXCEPT !.outcome = a] IN
       req' = [req EXCEPT ![r] =
            CASE a = "apiRoot" -> sendResult(q, StatusResponse(200, Text("API Root")))
              [] a = "apiVersionRoot" -> sendResult(q, StatusResponse(200, Text("API v1 Root")))
              [] a = "notFound" -> sendResult(q, notFound404)
              [] OTHER -> Catch(q, "Cannot read properties of undefined")]
    /\ UNCHANGED <<users, issued, consumed, rateLimitOptions, authUser, rateFaults>>

(***************************************************************************)
(* Default authentication: login, logout, logoutAll                        *)
(***************************************************************************)
LoginBodies ==
    { LoginBody(u, e, p) : u \in {"", "alice", "zed"}, e \in {"", "bob@x"},
                           p \in {"", "pw-alice", "pw-bob", "wrong"} }

\* MakaRest._extractUser: the selector; it throws with neither field.
_extractUser(body) ==
    IF body.username # ""
    THEN [throws |-> FALSE, username |-> body.username, email |-> ""]
    ELSE IF body.email # ""
    THEN [throws |-> FALSE, username |-> "", email |-> body.email]
    ELSE [throws |-> TRUE, username |-> "", email |-> ""]

\* Meteor.users.findOneAsync(Auth.getUserQuerySelector(user))
FindUserBySelector(user) ==
    IF user.username # ""
    THEN IF user.username \in Accounts THEN user.username ELSE NoUser
    ELSE IF \E u \in Accounts : EmailOf(u) = user.email
         THEN CHOOSE u \in Accounts : EmailOf(u) = user.email
         ELSE NoUser

\* Accounts._checkPassword(user, password).error
CheckPasswordError(u, password) == password # PasswordOf(u)

\* Auth.loginWithPassword: [error] or [authToken, userId, when], with the
\* users it leaves behind.
loginWithPassword(us, n, user, password) ==
    LET account == FindUserBySelector(user)
        failed == [error |-> "Unauthorized", authToken |-> NoToken,
                   userId |-> NoUser, when |-> FALSE, users |-> us, issued |-> n]
    IN IF password = "" THEN failed
       ELSE IF account = NoUser THEN failed
       ELSE IF CheckPasswordError(account, password) THEN failed
       ELSE [error |-> "", authToken |-> n + 1, userId |-> account, when |-> TRUE,
             users |-> [us EXCEPT ![account] = @ \cup {_hashLoginToken(n + 1)}],
             issued |-> n + 1]

\* The response of the login endpoint for an Auth.loginWithPassword result.
LoginResponseBadRequest(auth) ==
    IF auth.userId # NoUser /\ auth.authToken # NoToken
    THEN StatusResponse(200, Body("", auth.authToken, auth.when, ""))
    ELSE StatusResponse(400, Text("Error attempting login"))

LoginResponse(auth) ==
    IF auth.userId # NoUser /\ auth.authToken # NoToken
    THEN StatusResponse(200, Body("", auth.authToken, auth.when, ""))
    ELSE IF auth.error # ""
    THEN StatusResponse(401, Body("", NoToken, FALSE, auth.error))
    ELSE StatusResponse(400, Text("Error attempting login"))

LoginAction(r) ==
    /\ req[r].pc = "action"
    /\ Endpoint(req[r]).action = "login"
    /\ \E body \in LoginBodies :
         LET q == [req[r] EXCEPT !.outcome = "login", !.bodyParams = body]
             user == _extractUser(body)
         IN IF user.throws
            THEN /\ req' = [req EXCEPT ![r] =
                        Catch(q, "Username or email must be provided")]
                 /\ UNCHANGED <<users, issued>>
            ELSE LET auth == loginWithPassword(users, issued, user, body.password) IN
                 /\ auth.issued <= MaxIssued
                 /\ users' = auth.users
                 /\ issued' = auth.issued
                 /\ req' = [req EXCEPT ![r] = sendResult(q, LoginResponse(auth))]
    /\ UNCHANGED <<consumed, rateLimitOptions, authUser, rateFaults>>

\* Meteor.users.updateAsync(user._id, {$pull: {loginTokens: {hashedToken}}})
PullAllTokens(us, user, hashedToken) == [us EXCEPT ![user] = {}]
PullToken(us, user, hashedToken) == [us EXCEPT ![user] = @ \ {hashedToken}]

\* MakaRest._logout: pull the presented token from the user's list.  Without
\* the header the fallback reads this.request, which is never set: it throws.
LogoutAction(r) ==
    /\ req[r].pc = "action"
    /\ Endpoint(req[r]).action = "logout"
    /\ LET q == [req[r] EXCEPT !.outcome = "logout"] IN
       IF q.token = NoToken
       THEN /\ req' = [req EXCEPT ![r] =
                   Catch(q, "Cannot read properties of undefined (reading 'headers')")]
            /\ UNCHANGED users
       ELSE /\ users' = PullToken(users, q.user, _hashLoginToken(q.token))
            /\ req' = [req EXCEPT ![r] =
                   sendResult(q, StatusResponse(200, Text("Logged out successfully")))]
    /\ UNCHANGED <<issued, consumed, rateLimitOptions, authUser, rateFaults>>

\* Meteor.users.updateAsync(user._id, {$set: {loginTokens: []}})
ClearNoTokens(us, user) == us
ClearTokens(us, user) == [us EXCEPT ![user] = {}]

\* MakaRest._logoutAll: clear the user's token list.
LogoutAllAction(r) ==
    /\ req[r].pc = "action"
    /\ Endpoint(req[r]).action = "logoutAll"
    /\ users' = ClearTokens(users, req[r].user)
    /\ req' = [req EXCEPT ![r] =
           sendResult([req[r] EXCEPT !.outcome = "logoutAll"],
               StatusResponse(200, Text("Logged out from all devices successfully")))]
    /\ UNCHANGED <<issued, consumed, rateLimitOptions, authUser, rateFaults>>

(***************************************************************************)
(* Specifications                                                          *)
(***************************************************************************)
NoCall == [path |-> <<>>, onRoot |-> FALSE]
NoCfg == [method |-> "get", endpoint |-> Fn("user"), options |-> NoOptions]

InitReg ==
    /\ paths = Constructed.paths
    /\ routes = Constructed.routes
    /\ installs = Constructed.installs
    /\ nCalls = 0
    /\ lastCall = NoCall
    /\ threw = FALSE

NoGateIn == [endpoint |-> Fn("user"), options |-> NoOptions, token |-> NoToken]
NoGateOut == [done |-> FALSE, endpoint |-> Fn("user"), q |-> IdleReq]
NoFound == [index |-> 0, params |-> EmptyParams]
NoMatchIn ==
    [earlier |-> <<>>, pattern |-> <<>>, method |-> "GET", path |-> <<>>,
     query |-> <<>>]
NoMatchOut ==
    [done |-> FALSE, plain |-> NoFound, slash |-> NoFound,
     patternSlash |-> NoFound, bothSlash |-> NoFound, later |-> NoFound]

(***************************************************************************)
(* The host connect stack (WebApp.connectHandlers)                         *)
(***************************************************************************)
\* req.url.startsWith(prefix)
StartsWith(url, prefix) ==
    Len(url) >= Len(prefix) /\ SubSeq(url, 1, Len(prefix)) = prefix

\* A request handed to the stack and what the stack did with it: the routes
\* whose handler was invoked, in order, how many copies of the routing
\* middleware called next(), and the status a copy wrote itself.
NoDelivered ==
    [done |-> FALSE, x |-> Request("", <<>>), invoked |-> <<>>, passed |-> 0,
     statusCode |-> 0, ended |-> 0]

\* Requests handed to the stack, under the mount '/api/' and outside it.
StackRequests ==
    { Request("GET", V1(<<"articles">>)), Request("GET", Article42),
      Request("POST", V1(<<"articles">>)), Request("POST", V1(<<"login">>)),
      Request("GET", <<"/", "api", "/", "articles">>),
      Request("GET", <<"/", "api", "/">>), Request("GET", V1(<<>>)),
      Request("GET", V1(<<"*">>)), Request("GET", V1(<<"missing">>)),
      Request("GET", <<"/", "other">>) }

\* A copy of the middleware that goes on to next() after the handler it
\* invoked.
RECURSIVE processRoutesThenNext(_, _, _, _)
processRoutesThenNext(i, n, rs, d) ==
    IF i > n THEN d
    ELSE LET route == matchRoute(rs, d.x.method, d.x.url) IN
         IF StartsWith(d.x.url, <<"/">> \o ApiRoot) /\ route.index # 0
         THEN processRoutesThenNext(i + 1, n, rs,
                  [d EXCEPT !.invoked = Append(@, route.index)])
         ELSE processRoutesThenNext(i + 1, n, rs, [d EXCEPT !.passed = @ + 1])

\* The copies i..n of the middleware processRoutes installs, one per addToApi
\* call, in the order connect runs them.  A copy calls next() only for a url
\* outside the mount; under the mount it invokes the handler of the route
\* matchRoute finds, or writes the 404 and ends the response.
RECURSIVE processRoutes(_, _, _, _)
processRoutes(i, n, rs, d) ==
    IF i > n THEN d
    ELSE IF StartsWith(d.x.url, <<"/">> \o ApiRoot)
         THEN LET route == matchRoute(rs, d.x.method, d.x.url) IN
              IF route.index # 0
              THEN [d EXCEPT !.invoked = Append(@, route.index)]
              ELSE [d EXCEPT !.statusCode = 404, !.ended = @ + 1]
         ELSE processRoutes(i + 1, n, rs, [d EXCEPT !.passed = @ + 1])

\* connect hands a request to the stack as the addRoute calls made so far
\* left it.
Deliver(x) ==
    /\ ~delivered.done
    /\ delivered' = processRoutes(1, installs, routes,
                                  [NoDelivered EXCEPT !.done = TRUE, !.x = x])
    /\ UNCHANGED <<regVars, cfgIn, cfgOut, matchIn, matchOut, gateIn, gateOut,
                   userCall, colCall, runVars>>

\* The response is out; the stack waits for the next request.
Delivered ==
    /\ delivered.done
    /\ delivered' = NoDelivered
    /\ UNCHANGED <<regVars, cfgIn, cfgOut, matchIn, matchOut, gateIn, gateOut,
                   userCall, colCall, runVars>>

(***************************************************************************)
(* Collection routes (Restivus.addCollection)                              *)
(***************************************************************************)
\* The two Restivus classes at hand.
Versions == {"part_001", "restivus.js"}

\* const methods = ['get', 'post', 'put', 'patch', 'delete', 'getAll']
CollectionMethods == <<"get", "post", "put", "patch", "delete", "getAll">>
methodsOnCollection == {"post", "getAll"}

\* The keys of _collectionEndpoints and of _userCollectionEndpoints: the
\* second has no patch in restivus.js.
collectionEndpoints(version, isUsers) ==
    IF isUsers /\ version = "restivus.js"
    THEN {"get", "post", "put", "delete", "getAll"}
    ELSE {"get", "post", "put", "patch", "delete", "getAll"}

\* The http method a generated endpoint is keyed by: getAll is a get.
MethodType(method) == IF method = "getAll" THEN "get" ELSE method

\* A user record as stored, a field being as it was ("old") or as a request
\* body set it ("new"), and the fields a request body can name.
StoredUser == [f \in {"_id", "profile", "services"} |-> "old"]
BodyKeys == {"profile", "services", "roles"}

\* collection.update(id, {$set: fields}): the record with these fields set.
Update(record, fields) ==
    [f \in DOMAIN record \cup fields |-> IF f \in fields THEN "new" ELSE record[f]]

\* collection.findOne(id, {fields: {profile: 1}}): _id and profile.
ProfileOnly(record) == DOMAIN record \cap {"_id", "profile"}

\* The fields of the stored record a call changed or added.
Written(before, after) ==
    {f \in DOMAIN after : f \notin DOMAIN before \/ after[f] # before[f]}

NoUserCall ==
    [done |-> FALSE, version |-> "", method |-> "", body |-> {},
     record |-> StoredUser, returned |-> {}, removed |-> FALSE,
     created |-> FALSE]

\* The action of _userCollectionEndpoints[method] on the stored user, with
\* bodyParams naming the fields in body: the record afterwards and the
\* fields of the entity returned.
_userCollectionEndpoints(call) ==
    CASE call.method = "get" ->
           [call EXCEPT !.returned = ProfileOnly(call.record)]
      [] call.method = "put" ->
           LET entity == Update(call.record, {"profile"}) IN
           [call EXCEPT !.record = entity, !.returned = ProfileOnly(entity)]
      [] call.method = "patch" ->
           LET entity == Update(call.record, call.body) IN
           [call EXCEPT !.record = entity, !.returned = DOMAIN entity]
      [] call.method = "delete" ->
           [call EXCEPT !.removed = TRUE]
      [] call.method = "post" ->
           [call EXCEPT !.created = TRUE, !.returned = {"_id", "profile"}]
      [] OTHER ->
           [call EXCEPT !.returned = ProfileOnly(call.record)]

UserCalls ==
    { [NoUserCall EXCEPT !.version = version, !.method = method, !.body = body] :
        version \in Versions, method \in collectionEndpoints("part_001", TRUE),
        body \in SUBSET BodyKeys }

\* A request reaches a generated users endpoint.
CallUserEndpoint ==
    /\ ~userCall.done
    /\ userCall' = [_userCollectionEndpoints(userCall) EXCEPT !.done = TRUE]
    /\ UNCHANGED <<regVars, cfgIn, cfgOut, matchIn, matchOut, gateIn, gateOut,
                   delivered, colCall, runVars>>

\* What options.endpoints holds for a method: nothing, false, or options to
\* extend the generated endpoint with.
Overrides == {"undefined", "false", "authRequired"}

NoColCall ==
    [done |-> FALSE, version |-> "", isUsers |-> FALSE, excluded |-> {},
     endpoints |-> [m \in {} |-> "undefined"], threw |-> FALSE,
     collectionRoute |-> [m \in {} |-> "undefined"],
     entityRoute |-> [m \in {} |-> "undefined"]]

\* options.endpoints[method]
EndpointOptions(call, method) ==
    IF method \in DOMAIN call.endpoints THEN call.endpoints[method] ELSE "undefined"

\* _.extend(routeEndpoints, configuredEndpoint): the generated endpoint,
\* extended with its options, under its http method.
Extend(routeEndpoints, method, endpointOptions) ==
    [k \in DOMAIN routeEndpoints \cup {MethodType(method)} |->
        IF k = MethodType(method) THEN endpointOptions ELSE routeEndpoints[k]]

\* methods.forEach from the i-th method on: every method when neither
\* endpoints nor excludedEndpoints is given, else those neither excluded nor
\* set to false.  collectionEndpoints[method].call throws for a method the
\* endpoint set has no generator for.
RECURSIVE Generate(_, _, _)
Generate(call, i, all) ==
    IF i > Len(CollectionMethods) \/ call.threw THEN call
    ELSE LET method == CollectionMethods[i]
             endpointOptions == EndpointOptions(call, method)
         IN IF all \/ (method \notin call.excluded /\ endpointOptions # "false")
            THEN IF method \notin collectionEndpoints(call.version, call.isUsers)
                 THEN [call EXCEPT !.threw = TRUE]
                 ELSE Generate(
                        IF method \in methodsOnCollection
                        THEN [call EXCEPT !.collectionRoute =
                                  Extend(@, method, endpointOptions)]
                        ELSE [call EXCEPT !.entityRoute =
                                  Extend(@, method, endpointOptions)],
                        i + 1, all)
            ELSE Generate(call, i + 1, all)

\* Restivus.addCollection up to its two addRoute calls, which a throw does
\* not reach.
addCollection(call) ==
    Generate(call, 1, DOMAIN call.endpoints = {} /\ call.excluded = {})

\* options.endpoints: at most two of the methods configured.
EndpointMaps ==
    UNION { [S -> Overrides \ {"undefined"}] :
              S \in {T \in SUBSET {"get", "post", "patch", "getAll"} :
                        Cardinality(T) <= 2} }

ColCalls ==
    { [NoColCall EXCEPT !.version = version, !.isUsers = isUsers,
                        !.excluded = excluded, !.endpoints = endpoints] :
        version \in Versions, isUsers \in BOOLEAN,
        excluded \in SUBSET {"get", "post", "put", "patch", "delete", "getAll"},
        endpoints \in EndpointMaps }

AddCollection ==
    /\ ~colCall.done
    /\ colCall' = [addCollection(colCall) EXCEPT !.done = TRUE]
    /\ UNCHANGED <<regVars, cfgIn, cfgOut, matchIn, matchOut, gateIn, gateOut,
                   delivered, userCall, runVars>>

InitCfg ==
    /\ cfgIn = NoCfg
    /\ cfgOut = [done |-> FALSE, endpoint |-> NoCfg.endpoint]
    /\ matchIn = NoMatchIn
    /\ matchOut = NoMatchOut
    /\ gateIn = NoGateIn
    /\ gateOut = NoGateOut
    /\ delivered = NoDelivered
    /\ userCall = NoUserCall
    /\ colCall = NoColCall

InitRun ==
    /\ users = [u \in Accounts |-> {_hashLoginToken(IF u = "alice" THEN 1 ELSE 2)}]
    /\ issued = 2
    /\ consumed = [k \in Ips |-> 0]
    /\ authUser = "default"
    /\ rateFaults = {}
    /\ req = [r \in Reqs |-> IdleReq]

\* Requests served by the routes of the constructor and the application.
Init ==
    /\ paths = Served.paths
    /\ routes = Served.routes
    /\ installs = Served.installs
    /\ nCalls = 0
    /\ lastCall = NoCall
    /\ threw = FALSE
    /\ InitCfg
    /\ InitRun
    /\ rateLimitOptions = FALSE

Tokens == {NoToken, BogusToken} \cup (1..MaxIssued)

\* The tokens a caller can present: none, one issued so far, or a bogus one.
Presentable(token) == token <= issued \/ token = BogusToken

\* The requests made with each token: those whose endpoint asks for
\* authentication or for a role.  The others are made without a token.
CredentialMatters(x) ==
    /\ Matches[x].index # 0
    /\ LET endpoint == ServedRoutes[Matches[x].index].handler.endpoint
       IN endpoint.authRequired = "true" \/ endpoint.roleRequired # {}

Dispatch(r) ==
    \/ CallEndpoint(r)
    \/ UserAction(r)
    \/ BuiltinAction(r)

Next ==
    \/ \E r \in Reqs, x \in Requests, token \in Tokens :
         /\ Presentable(token)
         /\ token = NoToken \/ CredentialMatters(x)
         /\ Arrive(r, x, token)
         /\ UNCHANGED <<regVars, cfgVars>>
    \/ \E r \in Reqs : Dispatch(r) /\ UNCHANGED <<regVars, cfgVars>>
    \/ \E r \in Reqs : LoginAction(r) /\ UNCHANGED <<regVars, cfgVars>>
    \/ \E r \in Reqs : LogoutAction(r) /\ UNCHANGED <<regVars, cfgVars>>
    \/ \E r \in Reqs : LogoutAllAction(r) /\ UNCHANGED <<regVars, cfgVars>>
    \/ \E r \in Reqs : Close(r) /\ UNCHANGED <<regVars, cfgVars>>

Spec == Init /\ [][Next]_vars

\* The same, the application's handlers answering through this.response too.
NextManual ==
    \/ Next
    \/ \E r \in Reqs : ManualAction(r) /\ UNCHANGED <<regVars, cfgVars>>

SpecManual == Init /\ [][NextManual]_vars

\* Two requests handled at once: each is suspended at the lookup of its
\* user and at the call of its action, and the other runs meanwhile.
Slots == {1, 2}

ConcurrentRequests ==
    { Request("POST", V1(<<"logout">>)), Request("POST", Article42),
      Request("GET", V1(<<"articles">>)) }

InitConcurrent ==
    /\ paths = Served.paths
    /\ routes = Served.routes
    /\ installs = Served.installs
    /\ nCalls = 0
    /\ lastCall = NoCall
    /\ threw = FALSE
    /\ InitCfg
    /\ users = [u \in Accounts |-> {_hashLoginToken(IF u = "alice" THEN 1 ELSE 2)}]
    /\ issued = 2
    /\ consumed = [k \in Ips |-> 0]
    /\ authUser = "default"
    /\ rateFaults = {}
    /\ req = [r \in Slots |-> IdleReq]
    /\ rateLimitOptions = FALSE

NextConcurrent ==
    \/ \E r \in Slots, x \in ConcurrentRequests, token \in {NoToken, 1, 2} :
         Arrive(r, x, token) /\ UNCHANGED <<regVars, cfgVars>>
    \/ \E r \in Slots : CallEndpoint(r) /\ UNCHANGED <<regVars, cfgVars>>
    \/ \E r \in Slots : UserAction(r) /\ UNCHANGED <<regVars, cfgVars>>
    \/ \E r \in Slots : LogoutAction(r) /\ UNCHANGED <<regVars, cfgVars>>
    \/ \E r \in Slots : Close(r) /\ UNCHANGED <<regVars, cfgVars>>

SpecConcurrent == InitConcurrent /\ [][NextConcurrent]_vars

\* The same with a rate-limit policy configured.
InitRate ==
    /\ paths = Served.paths
    /\ routes = Served.routes
    /\ installs = Served.installs
    /\ nCalls = 0
    /\ lastCall = NoCall
    /\ threw = FALSE
    /\ InitCfg
    /\ InitRun
    /\ rateLimitOptions = TRUE

NextRate ==
    \/ Next
    \/ \E r \in Reqs, ip \in Ips : RateGate(r, ip) /\ UNCHANGED <<regVars, cfgVars>>
    \/ \E key \in Ips : Expire(key) /\ UNCHANGED <<regVars, cfgVars>>

SpecRate == InitRate /\ [][NextRate]_vars

\* The same, the policy having a keyGenerator of the application and a Redis
\* store.
InitRateFaulty ==
    /\ paths = Served.paths
    /\ routes = Served.routes
    /\ installs = Served.installs
    /\ nCalls = 0
    /\ lastCall = NoCall
    /\ threw = FALSE
    /\ InitCfg
    /\ users = [u \in Accounts |-> {_hashLoginToken(IF u = "alice" THEN 1 ELSE 2)}]
    /\ issued = 2
    /\ consumed = [k \in Ips |-> 0]
    /\ authUser = "default"
    /\ rateFaults = RateFaults
    /\ req = [r \in Reqs |-> IdleReq]
    /\ rateLimitOptions = TRUE

SpecRateFaulty == InitRateFaulty /\ [][NextRate]_vars

\* A caller followed from one request to the next, without a rate limit.
InitSession ==
    /\ paths = Served.paths
    /\ routes = Served.routes
    /\ installs = Served.installs
    /\ nCalls = 0
    /\ lastCall = NoCall
    /\ threw = FALSE
    /\ InitCfg
    /\ users = [u \in Accounts |-> {_hashLoginToken(IF u = "alice" THEN 1 ELSE 2)}]
    /\ issued = 2
    /\ consumed = [k \in Ips |-> 0]
    /\ authUser = "default"
    /\ rateFaults = {}
    /\ req = [r \in Reqs |-> [IdleReq EXCEPT !.prev.on = TRUE]]
    /\ rateLimitOptions = FALSE

SpecSession == InitSession /\ [][Next]_vars

\* Requests served by an api configured with its own auth.user function.
InitCustom ==
    /\ paths = Served.paths
    /\ routes = Served.routes
    /\ installs = Served.installs
    /\ nCalls = 0
    /\ lastCall = NoCall
    /\ threw = FALSE
    /\ InitCfg
    /\ users = [u \in Accounts |-> {_hashLoginToken(IF u = "alice" THEN 1 ELSE 2)}]
    /\ issued = 2
    /\ consumed = [k \in Ips |-> 0]
    /\ authUser = "custom"
    /\ rateFaults = {}
    /\ req = [r \in Reqs |-> IdleReq]
    /\ rateLimitOptions = FALSE

SpecCustom == InitCustom /\ [][Next]_vars

\* Registration: addRoute calls made by the application after construction.
RegPaths == { <<"articles">>, <<"articles", "/", ":id">>, Root, Star }

AddRoute(path, onRoot) ==
    /\ nCalls < MaxCalls
    /\ LET api == AddToApi([paths |-> paths, routes |-> routes,
                            installs |-> installs, threw |-> FALSE],
                           path, RouteOptions("undefined", {}, onRoot),
                           [get |-> Fn("user")])
       IN /\ paths' = api.paths
          /\ routes' = api.routes
          /\ installs' = api.installs
          /\ threw' = api.threw
    /\ nCalls' = nCalls + 1
    /\ lastCall' = [path |-> path, onRoot |-> onRoot]

NextReg ==
    \E path \in RegPaths, onRoot \in BOOLEAN :
        AddRoute(path, onRoot) /\ UNCHANGED <<cfgVars, runVars>>

InitRegistration == InitReg /\ InitCfg /\ InitRun /\ rateLimitOptions = FALSE

SpecReg == InitRegistration /\ [][NextReg]_vars

\* _configureEndpoints on one endpoint of a route.
Roles == {"admin", "dev"}

CfgInputs ==
    [method : {"get", "post", "options"},
     endpoint : { RawEndpoint("user", a, rs, {}) : a \in AuthOpt, rs \in SUBSET Roles },
     options : { RouteOptions(a, rs, FALSE) : a \in AuthOpt, rs \in SUBSET Roles }]

Configure ==
    /\ ~cfgOut.done
    /\ cfgOut' = [done |-> TRUE,
                  endpoint |-> ConfigureEndpoint(cfgIn.method, cfgIn.endpoint,
                                                 cfgIn.options)]
    /\ UNCHANGED <<cfgIn, matchIn, matchOut, gateIn, gateOut, delivered,
                   userCall, colCall>>

NextCfg == Configure /\ UNCHANGED <<regVars, runVars>>

InitConfigure ==
    /\ InitReg /\ InitRun /\ rateLimitOptions = FALSE
    /\ cfgIn \in CfgInputs
    /\ cfgOut = [done |-> FALSE, endpoint |-> cfgIn.endpoint]
    /\ matchIn = NoMatchIn
    /\ matchOut = NoMatchOut
    /\ gateIn = NoGateIn
    /\ gateOut = NoGateOut
    /\ delivered = NoDelivered
    /\ userCall = NoUserCall
    /\ colCall = NoColCall

SpecCfg == InitConfigure /\ [][NextCfg]_vars

\* matchRoute on a request for a route the application added: the pattern
\* as written and with a trailing '/', the request path as written and with
\* a trailing '/'.
MatchPatterns ==
    { <<"articles">>, <<"articles", "/", ":id">>, <<":slug">>,
      <<"articles", "/", ":id", "/", "comments">> }

MatchPaths ==
    { <<"/", "api", "/", "v1">>, V1(<<"articles">>), Article42,
      V1(<<"articles", "/", "42", "/", "comments">>),
      V1(<<"missing">>), V1(<<"login">>) }

\* A route the application added before, with a POST endpoint only (<<>>:
\* none).
EarlierPatterns ==
    { <<>>, <<"articles", "/", ":slug">>, <<"articles", "/", ":slug", "/", ":id">> }

MatchInputs ==
    [earlier : EarlierPatterns,
     pattern : MatchPatterns, method : {"GET", "POST", "OPTIONS"},
     path : MatchPaths, query : {<<>>, <<QMark, "x=1">>}]

\* JsonRoutes.routes once the application has added the route.
RoutesWith(pattern) ==
    AddToApi(Constructed, pattern, NoOptions, [get |-> Fn("user")]).routes

\* The same when the application added another route first.
RoutesWithEarlier(earlier, pattern) ==
    IF earlier = <<>> THEN RoutesWith(pattern)
    ELSE AddToApi(AddToApi(Constructed, earlier, NoOptions, [post |-> Fn("user")]),
                  pattern, NoOptions, [get |-> Fn("user")]).routes

MatchRequest ==
    /\ ~matchOut.done
    /\ LET plain == RoutesWith(matchIn.pattern)
           slashed == RoutesWith(matchIn.pattern \o <<Slash>>)
           url == matchIn.path \o matchIn.query
           urlSlash == matchIn.path \o <<Slash>> \o matchIn.query
       IN matchOut' =
            [done |-> TRUE,
             plain |-> matchRoute(plain, matchIn.method, url),
             slash |-> matchRoute(plain, matchIn.method, urlSlash),
             patternSlash |-> matchRoute(slashed, matchIn.method, url),
             bothSlash |-> matchRoute(slashed, matchIn.method, urlSlash),
             later |-> matchRoute(RoutesWithEarlier(matchIn.earlier, matchIn.pattern),
                                  matchIn.method, url)]
    /\ UNCHANGED <<cfgIn, cfgOut, matchIn, gateIn, gateOut, delivered,
                   userCall, colCall>>

NextMatch == MatchRequest /\ UNCHANGED <<regVars, runVars>>

InitMatch ==
    /\ InitReg /\ InitRun /\ rateLimitOptions = FALSE
    /\ cfgIn = NoCfg
    /\ cfgOut = [done |-> FALSE, endpoint |-> NoCfg.endpoint]
    /\ matchIn \in MatchInputs
    /\ matchOut = NoMatchOut
    /\ gateIn = NoGateIn
    /\ gateOut = NoGateOut
    /\ delivered = NoDelivered
    /\ userCall = NoUserCall
    /\ colCall = NoColCall

SpecMatch == InitMatch /\ [][NextMatch]_vars

\* _configureEndpoints, then _callEndpoint, on an endpoint written with any
\* combination of authRequired, roleRequired and scopeRequired, on a route
\* with any options, for a request with any credential.
GateRoles == {"admin", "user"}
GateScopes == {{}, {"eu"}, {"us"}}

GateInputs ==
    [endpoint : { RawEndpoint("user", a, rs, ss) :
                    a \in AuthOpt, rs \in SUBSET GateRoles, ss \in GateScopes },
     options : { RouteOptions(a, rs, FALSE) : a \in AuthOpt, rs \in {{}, {"admin"}} },
     token : {NoToken, 1, 2, BogusToken}]

Gate ==
    /\ ~gateOut.done
    /\ LET endpoint == ConfigureEndpoint("get", gateIn.endpoint, gateIn.options)
           called == [IdleReq EXCEPT !.method = "GET", !.url = Article42,
                                     !.token = gateIn.token, !.pc = "call"]
       IN gateOut' = [done |-> TRUE, endpoint |-> endpoint,
                      q |-> _callEndpoint(users, called, endpoint)]
    /\ UNCHANGED <<cfgIn, cfgOut, matchIn, matchOut, gateIn, delivered,
                   userCall, colCall>>

NextGate == Gate /\ UNCHANGED <<regVars, runVars>>

InitGate ==
    /\ InitReg /\ InitRun /\ rateLimitOptions = FALSE
    /\ cfgIn = NoCfg
    /\ cfgOut = [done |-> FALSE, endpoint |-> NoCfg.endpoint]
    /\ matchIn = NoMatchIn
    /\ matchOut = NoMatchOut
    /\ gateIn \in GateInputs
    /\ gateOut = NoGateOut
    /\ delivered = NoDelivered
    /\ userCall = NoUserCall
    /\ colCall = NoColCall

SpecGate == InitGate /\ [][NextGate]_vars


\* A pass through the stack is synchronous: no addRoute call runs inside it.
NextStack ==
    \/ ~delivered.done /\ NextReg
    \/ \E x \in StackRequests : Deliver(x)
    \/ Delivered

SpecStack == InitRegistration /\ [][NextStack]_vars

InitUsers ==
    /\ InitReg /\ InitRun /\ rateLimitOptions = FALSE
    /\ cfgIn = NoCfg
    /\ cfgOut = [done |-> FALSE, endpoint |-> NoCfg.endpoint]
    /\ matchIn = NoMatchIn
    /\ matchOut = NoMatchOut
    /\ gateIn = NoGateIn
    /\ gateOut = NoGateOut
    /\ delivered = NoDelivered
    /\ userCall \in UserCalls
    /\ userCall.method \in collectionEndpoints(userCall.version, TRUE)
    /\ colCall = NoColCall

NextUsers == CallUserEndpoint

SpecUsers == InitUsers /\ [][NextUsers]_vars

InitCollection ==
    /\ InitReg /\ InitRun /\ rateLimitOptions = FALSE
    /\ cfgIn = NoCfg
    /\ cfgOut = [done |-> FALSE, endpoint |-> NoCfg.endpoint]
    /\ matchIn = NoMatchIn
    /\ matchOut = NoMatchOut
    /\ gateIn = NoGateIn
    /\ gateOut = NoGateOut
    /\ delivered = NoDelivered
    /\ userCall = NoUserCall
    /\ colCall \in ColCalls

NextCollection == AddCollection

SpecCollection == InitCollection /\ [][NextCollection]_vars

(***************************************************************************)
(* Properties                                                              *)
(***************************************************************************)
\* The step of request r from one stage of its handling to the next.
Leaves(r, stage) == req[r].pc = stage /\ req'[r].pc # stage

\* The credential a request carries resolves to no user: it carries none, or
\* its token is in no user's list.
NoValidCredential(q) ==
    \/ q.token = NoToken
    \/ FindUserByToken(users, _hashLoginToken(q.token)) = NoUser

\* The user a request's token resolves to.
Bearer(q) == FindUserByToken(users, _hashLoginToken(q.token))

\* C1: a request that reaches authentication at an endpoint whose resolved
\* authRequired is true, and that carries no token or a token matching no user,
\* is answered 401 (never 403) whatever roles and scopes the endpoint asks
\* for, and the endpoint's action is not called.
C1_Unauthorized401 ==
    [][\A r \in Reqs :
         (/\ Leaves(r, "call")
          /\ Endpoint(req[r]).authRequired = "true"
          /\ NoValidCredential(req[r]))
         => /\ req'[r].pc = "done"
            /\ req'[r].statusCode = 401
            /\ req'[r].statusCode # 403
            /\ ~req'[r].handlerCalled
            /\ req'[r].ended = 1]_vars

\* C1, reached: a bogus token at an endpoint that asks for a role and a scope
\* was let through by the rate gate and answered 401.
C1_Witness ==
    \E r \in Reqs :
        /\ req[r].pc = "done"
        /\ req[r].route # 0
        /\ req[r].ip \in Ips
        /\ Endpoint(req[r]).authRequired = "true"
        /\ Endpoint(req[r]).roleRequired # {}
        /\ Endpoint(req[r]).scopeRequired # {}
        /\ req[r].token = BogusToken
        /\ req[r].statusCode = 401
        /\ ~req[r].handlerCalled

\* The user of a valid credential holds none of the endpoint's roles.
LacksRole(q) ==
    /\ Bearer(q) # NoUser
    /\ Endpoint(q).roleRequired # {}
    /\ RolesOf(Bearer(q)) \cap Endpoint(q).roleRequired = {}

C3_DuplicatePathFails ==
    [][nCalls' = nCalls + 1 =>
         LET path == lastCall'.path IN
         /\ (Contains(paths, path) /\ path \notin {Root, Star})
               => (threw' /\ paths' = paths /\ routes' = routes)
         /\ (Contains(paths, path) /\ path \in {Root, Star})
               => (~threw' /\ Len(routes') > Len(routes))]_vars

\* C3, reached: a path was registered twice with onRoot false.
C3_Witness ==
    /\ ~threw
    /\ ~lastCall.onRoot
    /\ lastCall.path = <<"articles">>
    /\ Cardinality({i \in 1..Len(paths) : paths[i] = <<"articles">>}) = 2

\* C4: once _configureEndpoints has run, an endpoint other than OPTIONS whose
\* merged roleRequired is not empty and whose own authRequired was not given
\* has authRequired true, whatever the route's authRequired.
C4_RoleImpliesAuth ==
    (/\ cfgOut.done
     /\ cfgIn.method # "options"
     /\ cfgIn.endpoint.roleRequired \cup cfgIn.options.roleRequired # {}
     /\ cfgIn.endpoint.authRequired = "undefined")
    => /\ cfgOut.endpoint.authRequired = "true"
       /\ cfgOut.endpoint.roleRequired =
             cfgIn.endpoint.roleRequired \cup cfgIn.options.roleRequired

\* C4, reached: the route says authRequired false and gives the only role.
C4_Witness ==
    /\ cfgOut.done
    /\ cfgIn.method = "post"
    /\ cfgIn.endpoint.authRequired = "undefined"
    /\ cfgIn.endpoint.roleRequired = {}
    /\ cfgIn.options.authRequired = "false"
    /\ cfgIn.options.roleRequired = {"admin"}
    /\ cfgOut.endpoint.authRequired = "true"

\* C5: with a policy configured, a request whose key has no points left in
\* the window ends with 429 at the rate gate, which is passed before the
\* credential is looked at and before the action is called: neither happens
\* for that request.
C5_RateLimitedBeforeAuth ==
    [][\A r \in Reqs :
         /\ req[r].pc = "gate" => (~req[r].lookedUp /\ ~req[r].handlerCalled)
         /\ (Leaves(r, "gate") /\ consumed[RateKey(req'[r].ip)] >= Points)
            => /\ req'[r].pc = "done"
               /\ req'[r].statusCode = 429
               /\ req'[r].ended = 1
               /\ ~req'[r].lookedUp
               /\ ~req'[r].handlerCalled
         /\ req[r].statusCode = 429 => req'[r].pc \in {"done", "idle"}]_vars

\* C5, reached: a request to an endpoint that requires authentication was
\* answered 429.
C5_Witness ==
    \E r \in Reqs :
        /\ req[r].pc = "done"
        /\ req[r].statusCode = 429
        /\ consumed[req[r].ip] = Points + 1
        /\ Endpoint(req[r]).authRequired = "true"
        /\ req[r].token = NoToken
        /\ ~req[r].lookedUp
        /\ ~req[r].handlerCalled

NoRouteMatches(q) ==
    \A i \in 1..Len(routes) :
        ~(ToUpperCase(routes[i].method) = q.method /\ PathMatch(routes[i], q.url).match)

\* C7: a request under the mount whose method and path match no registered
\* route is answered 404 and no action is called, whatever its method.
C7_Unmatched404 ==
    \A r \in Reqs :
        (req[r].pc # "idle" /\ NoRouteMatches(req[r]))
        => /\ req[r].pc = "done"
           /\ req[r].statusCode = 404
           /\ req[r].ended = 1
           /\ ~req[r].handlerCalled

\* C7, reached: a DELETE nothing is registered for.
C7_Witness ==
    \E r \in Reqs :
        /\ req[r].pc = "done"
        /\ req[r].method = "DELETE"
        /\ NoRouteMatches(req[r])
        /\ req[r].statusCode = 404

\* The path of a url: what precedes the query string.
RECURSIVE PathOf(_)
PathOf(url) ==
    IF url = <<>> \/ Head(url) = QMark THEN <<>>
    ELSE <<Head(url)>> \o PathOf(Tail(url))

\* C8 as stated: the urlParams an action is given map each parameter name of
\* the matched pattern to the segment of the request path at its position.
C8_UrlParamsArePathSegments ==
    \A r \in Reqs :
        req[r].handlerCalled =>
            LET pattern == Split(normalizePath(ServedRoutes[req[r].route].path))
                path == Split(normalizePath(PathOf(req[r].url)))
            IN \A i \in 1..Len(pattern) :
                 StartsWithColon(pattern[i]) =>
                    /\ i <= Len(path)
                    /\ Substring1(pattern[i]) \in DOMAIN req[r].urlParams
                    /\ req[r].urlParams[Substring1(pattern[i])] = path[i]

\* C8, reached: /articles/:id against /articles/42 gave {id: "42"}.
C8_Witness ==
    \E r \in Reqs :
        /\ req[r].handlerCalled
        /\ req[r].url = Article42
        /\ req[r].urlParams = ("id" :> <<"42">>)

\* C9: with N points a window, the requests of one key in one window are
\* counted, the first N are let through and every later one is rejected; the
\* count of another key is left alone, and starts again with a new window.
C9_FirstNAllowed ==
    [][/\ \A r \in Reqs :
            Leaves(r, "gate") =>
               LET key == req'[r].ip
                   before == consumed[key]
               IN /\ consumed' = [consumed EXCEPT ![key] = before + 1]
                  /\ before < Points => req'[r].pc = "call"
                  /\ before >= Points
                        => (req'[r].pc = "done" /\ req'[r].statusCode = 429)
       /\ (\A r \in Reqs : ~Leaves(r, "gate"))
            => \A key \in Ips : consumed'[key] \in {consumed[key], 0}]_vars

\* C9, reached: both keys have made N + 1 requests in their windows, and the
\* last one was rejected.
C9_Witness ==
    /\ \A key \in Ips : consumed[key] = Points + 1
    /\ \E r \in Reqs :
        /\ req[r].pc = "done"
        /\ req[r].ip = "ip2"
        /\ req[r].statusCode = 429

\* C10: the login action, given the username or email of an account and its
\* password, answers 200 with a new token and its timestamp, and the token's
\* hash is in the account's list; given another password it answers 401 and
\* no list changes.
C10_Login ==
    [][\A r \in Reqs :
         (/\ Leaves(r, "action")
          /\ Endpoint(req[r]).action = "login"
          /\ ~_extractUser(req'[r].bodyParams).throws
          /\ FindUserBySelector(_extractUser(req'[r].bodyParams)) # NoUser)
         => LET body == req'[r].bodyParams
                account == FindUserBySelector(_extractUser(body))
                data == req'[r].data
            IN IF body.password = PasswordOf(account)
               THEN /\ req'[r].statusCode = 200
                    /\ data.authToken # NoToken
                    /\ data.when
                    /\ _hashLoginToken(data.authToken) \notin users[account]
                    /\ users' = [users EXCEPT ![account] =
                                    @ \cup {_hashLoginToken(data.authToken)}]
               ELSE /\ req'[r].statusCode = 401
                    /\ data.authToken = NoToken
                    /\ users' = users
                    /\ issued' = issued]_vars

\* C10, reached: bob logged in by email, and the token he was given is in his
\* list.
C10_Witness ==
    \E r \in Reqs :
        /\ req[r].pc = "done"
        /\ req[r].outcome = "login"
        /\ req[r].bodyParams.email = "bob@x"
        /\ req[r].bodyParams.username = ""
        /\ req[r].statusCode = 200
        /\ req[r].data.authToken # NoToken
        /\ _hashLoginToken(req[r].data.authToken) \in users["bob"]

\* C10, reached: a wrong password for alice was answered 401.
C10_WrongPassword ==
    \E r \in Reqs :
        /\ req[r].pc = "done"
        /\ req[r].outcome = "login"
        /\ req[r].bodyParams.username = "alice"
        /\ req[r].bodyParams.password = "wrong"
        /\ req[r].statusCode = 401

\* The request q made with another token.
WithToken(q, token) == [q EXCEPT !.token = token]

\* C11: a logout answered 200 removes from the caller's list exactly the one
\* token presented in X-Auth-Token; that token authenticates no more, and
\* every other token, of the caller and of every other user, stays where it
\* was and authenticates as before.
C11_LogoutRemovesOneToken ==
    [][\A r \in Reqs :
          (/\ Leaves(r, "action")
           /\ Endpoint(req[r]).action = "logout"
           /\ req'[r].statusCode = 200)
          => LET hashed == _hashLoginToken(req[r].token) IN
             /\ hashed \in users[req[r].user]
             /\ users'[req[r].user] = users[req[r].user] \ {hashed}
             /\ \A u \in Accounts \ {req[r].user} : users'[u] = users[u]
             /\ ~_authenticate(users', req[r]).success
             /\ \A token \in (1..MaxIssued) \ {req[r].token} :
                  _authenticate(users', WithToken(req[r], token))
                    = _authenticate(users, WithToken(req[r], token))]_vars

\* alice, logged in twice, has logged out with her first token: her second
\* token and bob's are still there.
C11_Witness ==
    \E r \in Reqs :
        /\ req[r].pc = "done" /\ req[r].outcome = "logout"
        /\ req[r].statusCode = 200 /\ req[r].user = "alice"
        /\ req[r].token = 1
        /\ users["alice"] = {_hashLoginToken(3)}
        /\ users["bob"] = {_hashLoginToken(2)}

\* C12: a logoutAll answered 200 leaves the caller's token list empty and the
\* other users' lists as they were, so that no token issued so far resolves
\* to the caller; no step ever puts back a token issued earlier; and a login
\* answered 200 afterwards hands out a token never issued before, which
\* authenticates as the account that logged in.
C12_LogoutAllClearsTokens ==
    [][/\ \A r \in Reqs :
            (/\ Leaves(r, "action")
             /\ Endpoint(req[r]).action = "logoutAll"
             /\ req'[r].statusCode = 200)
            => /\ users'[req[r].user] = {}
               /\ \A u \in Accounts \ {req[r].user} : users'[u] = users[u]
               /\ \A token \in 1..MaxIssued :
                    _authenticate(users', WithToken(req[r], token)).user # req[r].user
       /\ \A u \in Accounts, token \in 1..issued :
            _hashLoginToken(token) \notin users[u]
              => _hashLoginToken(token) \notin users'[u]
       /\ \A r \in Reqs :
            (/\ Leaves(r, "action")
             /\ Endpoint(req[r]).action = "login"
             /\ req'[r].statusCode = 200)
            => LET token == req'[r].data.authToken IN
               /\ token > issued
               /\ \A u \in Accounts : _hashLoginToken(token) \notin users[u]
               /\ _authenticate(users', WithToken(req[r], token)).success
               /\ PasswordOf(_authenticate(users', WithToken(req[r], token)).user)
                    = req'[r].bodyParams.password]_vars

\* alice, holding two tokens, has logged out everywhere: her list is empty,
\* bob's token is still there.
C12_Witness ==
    \E r \in Reqs :
        /\ req[r].pc = "done" /\ req[r].outcome = "logoutAll"
        /\ req[r].statusCode = 200 /\ req[r].user = "alice"
        /\ issued = 3
        /\ users["alice"] = {}
        /\ users["bob"] = {_hashLoginToken(2)}

\* The request answered is a logoutAll made with the credential with which
\* the same caller's logoutAll has just been answered 200.
SecondLogoutAll(q) ==
    /\ q.pc = "done"
    /\ q.method = "POST" /\ q.url = V1(<<"logoutAll">>)
    /\ q.token # NoToken
    /\ q.prev.token = q.token

\* C13 as stated: POST logoutAll twice in a row with the same credential is
\* answered 200 both times.
C13_AsStated ==
    \A r \in Reqs : SecondLogoutAll(req[r]) => req[r].statusCode = 200

\* C13: POST logoutAll made again with the credential of a logoutAll just
\* answered 200 is answered 401 'Unauthorized', and _logoutAll is not called:
\* the first call removed the token the second one presents.
C13_SecondLogoutAll401 ==
    \A r \in Reqs :
        SecondLogoutAll(req[r])
        => /\ req[r].statusCode = 401
           /\ req[r].data = Text("Unauthorized")
           /\ ~req[r].handlerCalled

C13_Witness ==
    \E r \in Reqs :
        /\ SecondLogoutAll(req[r])
        /\ req[r].token = 1
        /\ users["alice"] = {}

\* POST logout made without an X-Auth-Token header has been answered.
LogoutWithoutToken(q) ==
    /\ q.pc = "done"
    /\ q.method = "POST" /\ q.url = V1(<<"logout">>)
    /\ q.token = NoToken

\* C14: POST logout without an X-Auth-Token header is answered 401 with the
\* body 'No auth token provided'.
C14_LogoutWithoutToken ==
    \A r \in Reqs :
        LogoutWithoutToken(req[r])
        => /\ req[r].statusCode = 401
           /\ req[r].data = Text("No auth token provided")

\* The answer it gets: the dispatcher's 401 'Unauthorized', _logout not called.
C14_Witness ==
    \E r \in Reqs :
        /\ LogoutWithoutToken(req[r])
        /\ req[r].statusCode = 401
        /\ req[r].data = Text("Unauthorized")
        /\ ~req[r].handlerCalled

\* The extractor returned an error payload for the request answered.
ExtractorError(q) == q.pc = "done" /\ q.authError # ""

\* C15: on an endpoint that requires authentication, when auth.user returns
\* an error payload, authentication fails and the 401 carries that payload
\* as its body, whatever else the extractor returned.
C15_ExtractorErrorSurfaced ==
    \A r \in Reqs :
        ExtractorError(req[r])
        => /\ req[r].statusCode = 401
           /\ req[r].data = Text(req[r].authError)
           /\ ~req[r].handlerCalled

\* The extractor returned an error payload and no token: the answer is the
\* generic 401 'Unauthorized'.
C15_Witness ==
    \E r \in Reqs :
        /\ ExtractorError(req[r])
        /\ req[r].token = NoToken
        /\ req[r].statusCode = 401
        /\ req[r].data = Text("Unauthorized")

\* The 'options' endpoint the application defined for the route added at
\* this path, if it defined one.
DefinesOptions(path) ==
    \E i \in 1..Len(AppCalls) :
        AppCalls[i].path = path /\ "options" \in DOMAIN AppCalls[i].endpoints

OwnOptions(path) ==
    LET i == CHOOSE i \in 1..Len(AppCalls) :
                 AppCalls[i].path = path /\ "options" \in DOMAIN AppCalls[i].endpoints
    IN AppCalls[i].endpoints.options

\* C16: an OPTIONS request to a route defined with its own 'options'
\* endpoint is dispatched to that endpoint; the default responder serves
\* only the routes defined without one.
C16_OwnOptionsEndpoint ==
    \A r \in Reqs :
        (req[r].route # 0 /\ req[r].method = "OPTIONS")
        => LET path == ServedRoutes[req[r].route].handler.route IN
           IF DefinesOptions(path)
           THEN Endpoint(req[r]) = OwnOptions(path)
           ELSE Endpoint(req[r]) = defaultOptionsEndpoint

\* OPTIONS on 'articles/:id', defined with its own 'options' endpoint, has
\* been handled by the default responder.
C16_Witness ==
    \E r \in Reqs :
        /\ req[r].pc = "done" /\ req[r].method = "OPTIONS"
        /\ req[r].url = Article42
        /\ DefinesOptions(ServedRoutes[req[r].route].handler.route)
        /\ req[r].outcome = "defaultOptions"

\* An OPTIONS request matched to a route defined without an 'options'
\* endpoint of its own.
DefaultOptions(q) ==
    /\ q.route # 0 /\ q.method = "OPTIONS"
    /\ ~DefinesOptions(ServedRoutes[q.route].handler.route)

\* C17: no step of handling an OPTIONS request to a route without its own
\* 'options' endpoint consumes a rate-limit point or answers 401, 403 or
\* 429: it goes to the default responder unauthenticated and unmetered.
C17_OptionsBypassesGates ==
    [][\A r \in Reqs :
          (DefaultOptions(req[r]) /\ req'[r] # req[r] /\ req[r].pc # "done")
          => /\ consumed' = consumed
             /\ req'[r].statusCode \notin {401, 403, 429}]_vars

\* OPTIONS on 'articles', whose GET requires the admin role, made by a
\* caller whose key is exhausted, has been answered 429.
C17_Witness ==
    \E r \in Reqs :
        /\ req[r].pc = "done" /\ DefaultOptions(req[r])
        /\ req[r].url = V1(<<"articles">>)
        /\ req[r].statusCode = 429
        /\ consumed[req[r].ip] > Points

\* The envelope: an object with a 'status' string derived from the status
\* code and a 'data' field.
HasEnvelope(body, statusCode) ==
    /\ {"status", "data"} \subseteq DOMAIN body
    /\ body.status = getReasonPhrase(statusCode)

\* C18: every body written, for a success and for a 401, 403, 404, 429 or
\* 500 alike, is the envelope: a 'status' string derived from the status
\* code and a 'data' field holding the body.
C18_BodyEnvelope ==
    \A r \in Reqs :
        req[r].ended > 0 => HasEnvelope(req[r].data, req[r].statusCode)

\* A login has been answered 200 with the bare token object as its body.
C18_Witness ==
    \E r \in Reqs :
        /\ req[r].ended > 0 /\ req[r].outcome = "login"
        /\ req[r].statusCode = 200
        /\ req[r].data = Body("", 3, TRUE, "")

\* The headers the handler of an answered request returned.
ReturnedHeaders(q) == IF q.outcome = "ok" THEN HandlerHeaders ELSE NoHeaders

\* The handler's result has been written as the response.
HandlerResultWritten(q) == q.ended > 0 /\ q.handlerCalled /\ q.thrown = ""

\* C19: the headers sent with a handler's result are the configured default
\* headers overridden per key by the headers the handler returned: each
\* header the handler returned is sent with the handler's value, and each
\* default header it did not return is sent with the default value.
C19_HeadersMerged ==
    \A r \in Reqs :
        HandlerResultWritten(req[r])
        => LET returned == ReturnedHeaders(req[r])
               sent == req[r].headers
               supplied == {toLowerCase(n) : n \in DOMAIN returned}
           IN /\ \A n \in DOMAIN returned :
                   /\ toLowerCase(n) \in DOMAIN sent
                   /\ sent[toLowerCase(n)] = returned[n]
              /\ \A n \in DOMAIN defaultHeaders :
                   toLowerCase(n) \notin supplied
                   => /\ toLowerCase(n) \in DOMAIN sent
                      /\ sent[toLowerCase(n)] = defaultHeaders[n]

\* A handler returned Content-Type: text/plain; the response went out as
\* application/json and without the configured CORS headers.
C19_Witness ==
    \E r \in Reqs :
        /\ HandlerResultWritten(req[r]) /\ req[r].outcome = "ok"
        /\ req[r].headers["content-type"] = "application/json"
        /\ req[r].headers["x-total-count"] = "1"
        /\ "access-control-allow-origin" \notin DOMAIN req[r].headers

\* C20: matching ignores one trailing slash: the request path with a
\* trailing '/' finds the route the path without it finds, and so does either
\* of them when the pattern was registered with a trailing '/'.
C20_TrailingSlashIgnored ==
    matchOut.done
    => /\ matchOut.slash.index = matchOut.plain.index
       /\ matchOut.patternSlash.index = matchOut.plain.index
       /\ matchOut.bothSlash.index = matchOut.plain.index

\* With ':slug' added, GET '/api/v1?x=1' finds no route while
\* GET '/api/v1/?x=1' finds the ':slug' route, the query string as its slug.
C20_Witness ==
    /\ matchOut.done
    /\ matchIn.pattern = <<":slug">> /\ matchIn.method = "GET"
    /\ matchIn.path = <<"/", "api", "/", "v1">>
    /\ matchIn.query = <<QMark, "x=1">>
    /\ matchOut.plain.index = 0
    /\ matchOut.slash.index = Len(Constructed.routes) + 1
    /\ matchOut.slash.params["slug"] = <<QMark, "x=1">>

\* POST login whose body carries neither a username nor an email has been
\* answered.
LoginWithoutIdentifier(q) ==
    /\ q.ended > 0 /\ q.outcome = "login"
    /\ q.bodyParams.username = "" /\ q.bodyParams.email = ""

\* C23: POST login with neither a username nor an email in its body is
\* answered 400.
C23_MissingLoginField400 ==
    \A r \in Reqs : LoginWithoutIdentifier(req[r]) => req[r].statusCode = 400

\* The answer it gets: _extractUser throws, the catch block answers 500.
C23_Witness ==
    \E r \in Reqs :
        /\ LoginWithoutIdentifier(req[r])
        /\ req[r].thrown = "Username or email must be provided"
        /\ req[r].statusCode = 500
        /\ req[r].data = Text("Server Error")

\* The user holds one of the endpoint's scopes.
HoldsScope(user, endpoint) == ScopesOf(user) \cap endpoint.scopeRequired # {}

\* C24 as stated: on an endpoint with scopeRequired set, an authenticated
\* request reaches the handler only if its user holds a required role and a
\* required scope; a user with none of the scopes gets 403.
C24_AsStated ==
    (/\ gateOut.done
     /\ gateOut.endpoint.scopeRequired # {}
     /\ gateOut.q.user # NoUser)
    => /\ gateOut.q.handlerCalled
            => /\ userIsInRole(gateOut.q.user, gateOut.endpoint.roleRequired)
               /\ HoldsScope(gateOut.q.user, gateOut.endpoint)
       /\ ~HoldsScope(gateOut.q.user, gateOut.endpoint)
            => gateOut.q.statusCode = 403 /\ ~gateOut.q.handlerCalled

\* C24: on an endpoint with scopeRequired set and a non-empty resolved
\* roleRequired, an authenticated request reaches the handler exactly when
\* its user holds a required role and a required scope, and is answered 403
\* otherwise; with no roleRequired the scopes are not looked at and the
\* handler is reached.
C24_ScopeNeedsRole ==
    (/\ gateOut.done
     /\ gateOut.endpoint.scopeRequired # {}
     /\ gateOut.q.user # NoUser)
    => IF gateOut.endpoint.roleRequired # {}
       THEN IF /\ userIsInRole(gateOut.q.user, gateOut.endpoint.roleRequired)
               /\ HoldsScope(gateOut.q.user, gateOut.endpoint)
            THEN gateOut.q.handlerCalled /\ gateOut.q.pc = "action"
            ELSE gateOut.q.statusCode = 403 /\ ~gateOut.q.handlerCalled
       ELSE gateOut.q.handlerCalled

\* bob holds the role 'user' and no scope: 403 on an endpoint asking for the
\* role 'user' and the scope 'eu'.
C24_Witness ==
    /\ gateOut.done
    /\ gateOut.endpoint.roleRequired = {"user"}
    /\ gateOut.endpoint.scopeRequired = {"eu"}
    /\ gateOut.q.user = "bob"
    /\ gateOut.q.statusCode = 403 /\ ~gateOut.q.handlerCalled

\* The request reached the handler authenticated, its user holding one of
\* the endpoint's roles.
ReachedWithRole(q, endpoint) ==
    q.handlerCalled => (q.user # NoUser /\ userIsInRole(q.user, endpoint.roleRequired))

C28_Only429WhenExhausted ==
    \A r \in Reqs :
        (req[r].pc = "done" /\ req[r].rateFault # "")
        => req[r].statusCode = 500 /\ req[r].statusCode # 429

\* The key function threw on the first request of a caller who has consumed
\* nothing: 429 'Too many requests'.
C28_Witness ==
    \E r \in Reqs :
        /\ req[r].pc = "done" /\ req[r].rateFault = "keyGenerator threw"
        /\ req[r].statusCode = 429
        /\ req[r].data = Text("Too many requests")
        /\ \A k \in Ips : consumed[k] = 0

\* The parameter names of a pattern.
ParamNames(path) ==
    { ParamName(path[i]) : i \in { j \in 1..Len(path) : path[j] \in ParamTokens } }

\* C30: the urlParams a handler receives hold the parameter names of the
\* pattern of the route matched and no other: a route registered earlier
\* whose path matches but whose method does not adds nothing to them.
C30_OnlyMatchedRouteParams ==
    (matchOut.done /\ matchOut.later.index # 0)
    => LET rs == RoutesWithEarlier(matchIn.earlier, matchIn.pattern)
       IN DOMAIN matchOut.later.params = ParamNames(rs[matchOut.later.index].path)

\* With POST 'articles/:slug' added before GET 'articles/:id', the handler
\* of GET '/api/v1/articles/42' receives slug as well as id.
C30_Witness ==
    /\ matchOut.done
    /\ matchIn.earlier = <<"articles", "/", ":slug">>
    /\ matchIn.pattern = <<"articles", "/", ":id">>
    /\ matchIn.method = "GET" /\ matchIn.path = Article42 /\ matchIn.query = <<>>
    /\ matchOut.later.index # 0
    /\ DOMAIN matchOut.later.params = {"slug", "id"}
    /\ matchOut.later.params["slug"] = <<"42">>

\* The routes with the request's method whose path matches its url.
MatchingRoutes(x) ==
    {i \in 1..Len(routes) :
        ToUpperCase(routes[i].method) = x.method /\ PathMatch(routes[i], x.url).match}

\* C26: however many addRoute calls installed the routing middleware, a
\* request has at most one handler invoked: the one of the first route in
\* registration order whose method and path match it, none when no route
\* matches or the url is outside the mount.
C26_OneHandlerFirstRoute ==
    delivered.done =>
        LET S == MatchingRoutes(delivered.x) IN
        /\ Len(delivered.invoked) <= 1
        /\ IF S # {} /\ StartsWith(delivered.x.url, <<"/">> \o ApiRoot)
           THEN /\ Len(delivered.invoked) = 1
                /\ delivered.invoked[1] \in S
                /\ \A j \in S : delivered.invoked[1] <= j
           ELSE delivered.invoked = <<>>

\* C26, reached: the middleware was installed twice more, two routes match
\* the request, and the handler of the earlier one ran.
C26_Witness ==
    /\ delivered.done
    /\ installs >= Constructed.installs + 2
    /\ Cardinality(MatchingRoutes(delivered.x)) >= 2
    /\ Len(delivered.invoked) = 1

\* C27 as stated: once the dispatcher is through with a request, its response
\* has been ended exactly once, whatever the handler did: returned a
\* StatusResponse, returned nothing, wrote the response itself, or threw.
C27_EndedExactlyOnce ==
    \A r \in Reqs : req[r].pc = "done" => req[r].ended = 1

\* C27, reached: the handler wrote and ended the response itself, and the
\* dispatcher has ended it once more.
C27_Witness ==
    \E r \in Reqs :
        /\ req[r].pc = "done"
        /\ req[r].outcome = "manual"
        /\ req[r].ended = 2

\* The account a login token was issued to before the requests began.
HolderOf(token) ==
    IF token = 1 THEN "alice" ELSE IF token = 2 THEN "bob" ELSE NoUser

\* C29: under any interleaving of two requests handled at once, the user a
\* handler is called with is the one its own request's token belongs to, or
\* none when the endpoint asks for no authentication, whatever the other
\* request authenticated as or logged out meanwhile.
C29_OwnIdentity ==
    \A r \in Slots :
        req[r].handlerCalled =>
            req[r].user = IF Endpoint(req[r]).authRequired = "true"
                          THEN HolderOf(req[r].token) ELSE NoUser

\* C29, reached: both requests are suspended at their action, one
\* authenticated as alice and the other as bob.
C29_Witness ==
    /\ \A r \in Slots : req[r].pc = "action" /\ req[r].handlerCalled
    /\ req[1].user = "alice"
    /\ req[2].user = "bob"

\* C21 as stated: an endpoint generated for Meteor.users returns nothing of a
\* user but _id and profile, and no request body makes it change a stored
\* field other than profile.
C21_OnlyProfile ==
    userCall.done =>
        /\ userCall.returned \subseteq {"_id", "profile"}
        /\ Written(StoredUser, userCall.record) \subseteq {"profile"}

\* C21, reached: a PATCH naming services has been answered.
C21_Witness ==
    /\ userCall.done
    /\ userCall.method = "patch"
    /\ "services" \in userCall.body
    /\ "services" \in Written(StoredUser, userCall.record)
    /\ "services" \in userCall.returned

\* The standard endpoints options leaves in: neither excluded nor false.
Kept(call) ==
    {m \in {"get", "post", "put", "patch", "delete", "getAll"} :
        m \notin call.excluded /\ EndpointOptions(call, m) # "false"}

\* C22 as stated: addCollection completes without error and hands addRoute
\* exactly the endpoints kept, getAll and post for the collection path and
\* get, put, patch and delete for 'path/:id', each with its options, for
\* every exclusion set, for an ordinary collection and for Meteor.users.
C22_ExactlyKept ==
    colCall.done =>
        /\ ~colCall.threw
        /\ DOMAIN colCall.collectionRoute =
               {MethodType(m) : m \in Kept(colCall) \cap methodsOnCollection}
        /\ DOMAIN colCall.entityRoute = Kept(colCall) \ methodsOnCollection
        /\ \A m \in Kept(colCall) :
               (IF m \in methodsOnCollection THEN colCall.collectionRoute
                ELSE colCall.entityRoute)[MethodType(m)] = EndpointOptions(colCall, m)

\* C22, reached: addCollection(Meteor.users) with nothing excluded threw.
C22_Witness ==
    /\ colCall.done
    /\ colCall.isUsers
    /\ colCall.excluded = {}
    /\ colCall.threw

====
